---- MODULE Spec2Model ----
(***************************************************************************)
(* A model of chat/common/util.py: the record-kind generator               *)
(* (Model.model_with_fields, add_getters_setters, clean_getters_setters,   *)
(* add_fields, omit_fields), the schema adapter model_from_proto, and the  *)
(* instances of the generated kinds; and of chat/common/client/events.py:  *)
(* the client loop main.                                                   *)
(*                                                                         *)
(* Attribute names are real strings, so f'set_{name}', f'_{name}',         *)
(* attr_name[:4] and attr_name[4:] are computed as Python computes them.   *)
(***************************************************************************)
EXTENDS Naturals, Sequences, FiniteSets, TLC

VARIABLES kinds, insts, last, pc, frame, calls

\* The state of a run of the client loop.
mainVars == <<pc, frame, calls>>

vars == <<kinds, insts, last, pc, frame, calls>>

(***************************************************************************)
(* Bounds of the model.                                                    *)
(***************************************************************************)
\* Classes published by the generator.
MaxKinds == 3
\* Classes and instances alive in the specification with instances.
MaxInstKinds == 2
MaxInsts == 2
\* Calls of entry, request and handler in a run of the client loop.
MaxCalls == 5

(***************************************************************************)
(* The universe of inputs.                                                 *)
(***************************************************************************)
\* Model._reserved_fields
Reserved == <<"_fields", "_reserved_fields">>

\* Field names a caller may pass as keyword names.
FieldNames == {"a", "fields", "_fields"}

\* Objects a caller may pass as a field's value: two plain classes, a class
\* with a metaclass (an Enum subclass) and an object that is no class.
PlainTypes == {"int", "str"}
FieldValues == PlainTypes \cup {"Opcode", "five"}

\* type(value), as Python evaluates it.
TypeOf(value) ==
    IF value \in PlainTypes THEN "type"
    ELSE IF value = "Opcode" THEN "EnumMeta"
    ELSE "int"

\* isinstance(value, type): the object is a class.
IsClass(value) == TypeOf(value) \in {"type", "EnumMeta"}

Item(n, v) == [name |-> n, value |-> v]

\* A keyword-argument dict: ordered, its names distinct.
IsDict(s) == \A i, j \in DOMAIN s : s[i].name = s[j].name => i = j

\* The keyword dicts with names in `names` and values in `values`.
DictsOver(names, values) ==
    { s \in UNION { [1..n -> [name : names, value : values]] :
                        n \in 0..Cardinality(names) } :
        IsDict(s) }

\* Every keyword dict over FieldNames, and the ones that hold the other
\* reserved name.
Dicts ==
    DictsOver(FieldNames, FieldValues)
    \cup DictsOver({"a", "_reserved_fields"}, FieldValues)

Keys(d) == { d[i].name : i \in DOMAIN d }

Range(s) == { s[i] : i \in DOMAIN s }

\* d[name], for name in d.
Lookup(d, n) == (CHOOSE i \in DOMAIN d : d[i].name = n)

ValueAt(d, n) == d[Lookup(d, n)].value

(***************************************************************************)
(* Python helpers.                                                         *)
(***************************************************************************)
\* attr_name[:4] and attr_name[4:]
Take4(s) == SubSeq(s, 1, IF Len(s) < 4 THEN Len(s) ELSE 4)

Drop4(s) == SubSeq(s, 5, Len(s))

\* d[n] = v on a dict: an existing key keeps its position and takes the new
\* value, a new key goes last.
DictPut(d, n, v) ==
    IF n \in Keys(d)
    THEN [i \in DOMAIN d |-> IF d[i].name = n THEN Item(n, v) ELSE d[i]]
    ELSE Append(d, Item(n, v))

\* dict(items): the pairs are inserted from left to right.
RECURSIVE DictOfItems(_)
DictOfItems(items) ==
    IF items = <<>> THEN <<>>
    ELSE DictPut(DictOfItems(SubSeq(items, 1, Len(items) - 1)),
                 items[Len(items)].name, items[Len(items)].value)

\* {n: t for n, t in d.items() if n not in rm}
RECURSIVE DictWithout(_, _)
DictWithout(d, rm) ==
    IF d = <<>> THEN <<>>
    ELSE IF d[1].name \in rm THEN DictWithout(Tail(d), rm)
    ELSE <<d[1]>> \o DictWithout(Tail(d), rm)

(***************************************************************************)
(* class Model                                                             *)
(***************************************************************************)
\* dir(Model): the attributes every generated class inherits.
DirModel ==
    {"_fields", "_reserved_fields", "serialize", "deserialize",
     "model_with_fields", "add_getters_setters", "clean_getters_setters",
     "add_fields", "omit_fields",
     "__init__", "__getattribute__", "__setattr__"}

\* The values a class attribute of the model can hold.
NoneAttr == [impl |-> "None", private_name |-> ""]

SetterAttr(private_name) == [impl |-> "__impl_setter__", private_name |-> private_name]

GetterAttr(private_name) == [impl |-> "__impl_getter__", private_name |-> private_name]

InitAttr == [impl |-> "__impl_init__", private_name |-> ""]

\* setattr(model, attr_name, value) on a class
SetClassAttr(model, attr_name, value) ==
    [model EXCEPT !.attrs =
        [a \in DOMAIN model.attrs \cup {attr_name} |->
            IF a = attr_name THEN value ELSE model.attrs[a]]]

\* class __impl_model__(Model): _fields = {k: v for k, v in fields.items()}
ImplModel(fields) ==
    [_fields |-> DictOfItems(fields), attrs |-> [a \in {} |-> NoneAttr]]

\* dir(model)
Dir(model) == DOMAIN model.attrs \cup DirModel

\* clean_getters_setters slicing the name one character short (attr_name[3:]).
clean_getters_setters_slice3(model) ==
    LET stale == { attr_name \in Dir(model) :
                     /\ Take4(attr_name) \in {"get_", "set_"}
                     /\ SubSeq(attr_name, 4, Len(attr_name)) \notin Keys(model._fields) }
    IN  [model EXCEPT !.attrs =
            [a \in DOMAIN model.attrs \cup stale |->
                IF a \in stale THEN NoneAttr ELSE model.attrs[a]]]

\* Model.clean_getters_setters
clean_getters_setters(model) ==
    LET stale == { attr_name \in Dir(model) :
                     /\ Take4(attr_name) \in {"get_", "set_"}
                     /\ Drop4(attr_name) \notin Keys(model._fields) }
    IN  [model EXCEPT !.attrs =
            [a \in DOMAIN model.attrs \cup stale |->
                IF a \in stale THEN NoneAttr ELSE model.attrs[a]]]

\* The loop with private_name bound late: every accessor closes over the
\* variable, which holds the name of the last field when the loop is over.
RECURSIVE InstallFrom_late_binding(_, _)
InstallFrom_late_binding(model, i) ==
    IF i > Len(model._fields) THEN [raised |-> FALSE, model |-> model]
    ELSE LET name == model._fields[i].name
             value == model._fields[i].value
             private_name == "_" \o model._fields[Len(model._fields)].name
         IN  IF TypeOf(value) # "type"
             THEN [raised |-> TRUE, model |-> model]
             ELSE InstallFrom_late_binding(
                     SetClassAttr(
                         SetClassAttr(model, "set_" \o name, SetterAttr(private_name)),
                         "get_" \o name, GetterAttr(private_name)),
                     i + 1)

\* The loop of add_getters_setters from the i-th item of model._fields on:
\* it raises at the first value whose type is not `type`, leaving the
\* accessors of the earlier fields on the class.
RECURSIVE InstallFrom(_, _)
InstallFrom(model, i) ==
    IF i > Len(model._fields) THEN [raised |-> FALSE, model |-> model]
    ELSE LET name == model._fields[i].name
             value == model._fields[i].value
             private_name == "_" \o name
         IN  IF TypeOf(value) # "type"
             THEN [raised |-> TRUE, model |-> model]
             ELSE InstallFrom(
                     SetClassAttr(
                         SetClassAttr(model, "set_" \o name, SetterAttr(private_name)),
                         "get_" \o name, GetterAttr(private_name)),
                     i + 1)

\* Model.add_getters_setters
add_getters_setters(model) ==
    LET loop == InstallFrom(model, 1)
    IN  IF loop.raised
        THEN [status |-> "ValueError: not a type", model |-> loop.model]
        ELSE [status |-> "ok",
              model |-> clean_getters_setters(
                            SetClassAttr(loop.model, "__init__", InitAttr))]

\* No class object.
NoClass == <<>>

\* model_with_fields looking for reserved names only once the class is built.
model_with_fields_late_check(fields) ==
    LET r == add_getters_setters(ImplModel(fields))
    IN  IF r.status # "ok" THEN [status |-> r.status, made |-> <<r.model>>]
        ELSE IF \E i \in DOMAIN fields : fields[i].name \in Range(Reserved)
        THEN [status |-> "ValueError: reserved name", made |-> <<r.model>>]
        ELSE [status |-> r.status, made |-> <<r.model>>]

\* Model.model_with_fields(**fields).  `made` is the class object the call
\* created, whether or not the call returns it.
model_with_fields(fields) ==
    IF \E i \in DOMAIN fields : fields[i].name \in Range(Reserved)
    THEN [status |-> "ValueError: reserved name", made |-> NoClass]
    ELSE LET r == add_getters_setters(ImplModel(fields))
         IN  [status |-> r.status, made |-> <<r.model>>]

\* A call of Model.model_with_fields with positional arguments `args` and
\* keyword arguments `fields`: the signature takes keyword arguments only.
call_model_with_fields(args, fields) ==
    IF Len(args) > 0
    THEN [status |-> "TypeError: positional argument", made |-> NoClass]
    ELSE model_with_fields(fields)

\* add_fields compiling the new fields alone, without those of cls.
add_fields_new_only(cls, new_fields) ==
    LET r == call_model_with_fields(<<>>, DictOfItems(new_fields))
    IN  IF r.status # "ok" THEN r
        ELSE LET again == add_getters_setters(r.made[1])
             IN  [status |-> again.status, made |-> <<again.model>>]

\* cls.add_fields(**new_fields)
add_fields(cls, new_fields) ==
    LET r == call_model_with_fields(<<>>, DictOfItems(cls._fields \o new_fields))
    IN  IF r.status # "ok" THEN r
        ELSE LET again == add_getters_setters(r.made[1])
             IN  [status |-> again.status, made |-> <<again.model>>]

\* The loop of omit_fields looking at the first name of rm_fields only.
FirstUnknown_first_only(cls, rm_fields) ==
    IF rm_fields # <<>> /\ rm_fields[1].name \notin Keys(cls._fields) THEN 1 ELSE 0

\* The index of the first name of rm_fields that is no field of cls, or 0.
FirstUnknown(cls, rm_fields) ==
    IF \E i \in DOMAIN rm_fields : rm_fields[i].name \notin Keys(cls._fields)
    THEN CHOOSE i \in DOMAIN rm_fields :
            /\ rm_fields[i].name \notin Keys(cls._fields)
            /\ \A j \in 1..(i - 1) : rm_fields[j].name \in Keys(cls._fields)
    ELSE 0

\* cls.omit_fields(**rm_fields)
omit_fields(cls, rm_fields) ==
    IF FirstUnknown(cls, rm_fields) # 0
    THEN [status |-> "ValueError: cannot omit", made |-> NoClass]
    ELSE LET r == call_model_with_fields(
                      <<DictWithout(cls._fields, Keys(rm_fields))>>, <<>>)
         IN  IF r.status # "ok" THEN r
             ELSE LET again == add_getters_setters(r.made[1])
                  IN  [status |-> again.status, made |-> <<again.model>>]

(***************************************************************************)
(* model_from_proto                                                        *)
(***************************************************************************)
\* What a caller may pass as `iface`: an object that is no class, a class
\* that does not derive from Interface, or an Interface subclass whose
\* _fields_enum is None (inherited), an object, a plain class, or an Enum
\* class declaring `members`.
Iface(kind, fields_enum, members) ==
    [kind |-> kind, fields_enum |-> fields_enum, members |-> members]

FieldsEnums == {"None", "object", "class", "Enum"}

\* type(iface._fields_enum)
TypeOfFieldsEnum(fields_enum) ==
    CASE fields_enum = "None" -> "NoneType"
      [] fields_enum = "object" -> "int"
      [] fields_enum = "class" -> "type"
      [] fields_enum = "Enum" -> "EnumMeta"

\* member.name of the i-th entry of __members__: a name declared with the
\* value of an earlier name is an alias of that earlier member.
MemberName(members, i) ==
    members[CHOOSE j \in 1..i :
                /\ members[j].value = members[i].value
                /\ \A k \in 1..(j - 1) : members[k].value # members[i].value].name

\* [(member.name, member.value) for _, member in __members__.items()]
MemberItems(members) ==
    [i \in DOMAIN members |-> Item(MemberName(members, i), members[i].value)]

\* issubclass(iface._fields_enum, Enum) or issubclass(..., EnumMeta), asked
\* of an object whose type is EnumMeta: a class made by EnumMeta derives
\* from Enum.
IsEnumSubclass(fields_enum) == fields_enum = "Enum"

\* model_from_proto(iface)
model_from_proto(iface) ==
    IF iface.kind = "object"
    THEN [status |-> "TypeError: issubclass", made |-> NoClass]
    ELSE IF iface.kind # "Interface"
    THEN [status |-> "ValueError: not an interface", made |-> NoClass]
    ELSE IF \/ TypeOfFieldsEnum(iface.fields_enum) \notin {"Enum", "EnumMeta"}
            \/ ~IsEnumSubclass(iface.fields_enum)
    THEN [status |-> "ValueError: not an Enum", made |-> NoClass]
    ELSE IF "model_from_fields" \notin DirModel
    THEN [status |-> "AttributeError: model_from_fields", made |-> NoClass]
    ELSE call_model_with_fields(<<>>, DictOfItems(MemberItems(iface.members)))

(***************************************************************************)
(* Instances                                                               *)
(***************************************************************************)
\* Values a caller stores in a field.
InstValues == {"None", "v1"}

\* An assignment that replaces the instance's attributes by the one it sets.
SetInstAttr_replaces_dict(self, name, val) ==
    [self EXCEPT !.dict = [a \in {name} |-> val]]

\* setattr(self, name, val) on an instance
SetInstAttr(self, name, val) ==
    [self EXCEPT !.dict =
        [a \in DOMAIN self.dict \cup {name} |->
            IF a = name THEN val ELSE self.dict[a]]]

\* getattr(self, name, None): the instance's own attribute, else the
\* attribute of its class, else the default.
GetInstAttr(self, cls, name) ==
    IF name \in DOMAIN self.dict THEN self.dict[name]
    ELSE IF name \in DOMAIN cls.attrs \cup DirModel THEN "class attribute"
    ELSE "None"

\* __impl_setter__ without its `return self`.
impl_setter_no_return(self, val, private_name) ==
    [self |-> SetInstAttr(self, private_name, val), returns_self |-> FALSE]

\* __impl_setter__(self, val): the instance after the call, and whether the
\* call returns that instance
impl_setter(self, val, private_name) ==
    [self |-> SetInstAttr(self, private_name, val), returns_self |-> TRUE]

\* __impl_getter__(self)
impl_getter(self, cls, private_name) == GetInstAttr(self, cls, private_name)

\* self.get_<name>() on an instance of cls
CallGetter(self, cls, name) ==
    LET attr_name == "get_" \o name
    IN  IF attr_name \notin DOMAIN cls.attrs THEN "AttributeError"
        ELSE IF cls.attrs[attr_name].impl # "__impl_getter__" THEN "TypeError"
        ELSE impl_getter(self, cls, cls.attrs[attr_name].private_name)

\* self.set_<name>(val) on an instance of cls
CallSetter(self, cls, name, val) ==
    LET attr_name == "set_" \o name
    IN  IF attr_name \notin DOMAIN cls.attrs
        THEN [status |-> "AttributeError", self |-> self, returns_self |-> FALSE]
        ELSE IF cls.attrs[attr_name].impl # "__impl_setter__"
        THEN [status |-> "TypeError", self |-> self, returns_self |-> FALSE]
        ELSE LET r == impl_setter(self, val, cls.attrs[attr_name].private_name)
             IN  [status |-> "ok", self |-> r.self, returns_self |-> r.returns_self]

\* The loop of __impl_init__ from the i-th name of the class's _fields on.
\* getattr(self, 'set_<name>', lambda _: _) falls back to a function that
\* stores nothing.
RECURSIVE InitFrom(_, _, _, _)
InitFrom(self, cls, kwargs, i) ==
    IF i > Len(cls._fields) THEN [status |-> "ok", self |-> self, returns_self |-> FALSE]
    ELSE LET name == cls._fields[i].name
         IN  IF name \in Keys(kwargs)
             THEN IF ("set_" \o name) \notin DOMAIN cls.attrs
                  THEN InitFrom(self, cls, kwargs, i + 1)
                  ELSE LET r == CallSetter(self, cls, name, ValueAt(kwargs, name))
                       IN  IF r.status # "ok" THEN r
                           ELSE InitFrom(r.self, cls, kwargs, i + 1)
             ELSE InitFrom(SetInstAttr(self, "_" \o name, "None"), cls, kwargs, i + 1)

\* cls(**kwargs) for the class at index k: a new object, then __impl_init__
impl_init(k, cls, kwargs) ==
    InitFrom([cls |-> k, dict |-> [a \in {} |-> "None"]], cls, kwargs, 1)

(***************************************************************************)
(* State: `kinds` are the classes the generator has returned, in the order *)
(* of their creation (a class is identified by its index); `insts` are the *)
(* instances callers hold; `last` is the call that has just ended and that *)
(* its caller has yet to act on: its arguments, how it ended, what it      *)
(* returned and the class object it left unreturned.                       *)
(***************************************************************************)
NoIface == Iface("", "None", <<>>)

\* A call: the operation `op`; its arguments (a keyword dict `S`, the class
\* `base` or the instance `inst` it is called on, `iface`, the field `name`
\* and the value `val`); and its outcome (`status`, the class `kind` or the
\* instance `ret` it returns, the class `orphan` it created and kept back).
Call(op, S, base, iface, inst, name, val, status, kind, ret, orphan) ==
    [op |-> op, S |-> S, base |-> base, iface |-> iface, inst |-> inst,
     name |-> name, val |-> val, status |-> status, kind |-> kind,
     ret |-> ret, orphan |-> orphan]

NoCall == Call("", <<>>, 0, NoIface, 0, "", "None", "", 0, 0, NoClass)

\* main's local variables before main is called.
NoFrame == <<>>

Init ==
    /\ kinds = <<>>
    /\ insts = <<>>
    /\ last = NoCall
    /\ pc = "not called"
    /\ frame = NoFrame
    /\ calls = <<>>

\* The caller goes on after a call: the outcome of the call is dropped.
Continue ==
    /\ last # NoCall
    /\ last' = NoCall
    /\ UNCHANGED <<kinds, insts>>
    /\ UNCHANGED mainVars

\* A derivation that rebuilds the class it is called on instead of making a
\* new one.
Return_in_place(op, S, base, iface, r) ==
    /\ last = NoCall
    /\ kinds' = IF r.status # "ok" THEN kinds
                ELSE IF base = 0 THEN Append(kinds, r.made[1])
                ELSE [kinds EXCEPT ![base] = r.made[1]]
    /\ last' = Call(op, S, base, iface, 0, "", "None", r.status,
                    IF r.status # "ok" THEN 0
                    ELSE IF base = 0 THEN Len(kinds) + 1 ELSE base, 0,
                    IF r.status = "ok" THEN NoClass ELSE r.made)
    /\ UNCHANGED insts
    /\ UNCHANGED mainVars

\* The end of a call of the generator with outcome r: a returned class is
\* published, a class that was created and not returned is left behind.
Return(op, S, base, iface, r) ==
    /\ last = NoCall
    /\ kinds' = IF r.status = "ok" THEN Append(kinds, r.made[1]) ELSE kinds
    /\ last' = Call(op, S, base, iface, 0, "", "None", r.status,
                    IF r.status = "ok" THEN Len(kinds) + 1 ELSE 0, 0,
                    IF r.status = "ok" THEN NoClass ELSE r.made)
    /\ UNCHANGED insts
    /\ UNCHANGED mainVars

ModelWithFields(fields) ==
    Return("model_with_fields", fields, 0, NoIface, model_with_fields(fields))

AddFields(k, new_fields) ==
    Return("add_fields", new_fields, k, NoIface, add_fields(kinds[k], new_fields))

OmitFields(k, rm_fields) ==
    Return("omit_fields", rm_fields, k, NoIface, omit_fields(kinds[k], rm_fields))

ModelFromProto(iface) ==
    Return("model_from_proto", <<>>, 0, iface, model_from_proto(iface))

\* kinds[k](**kwargs)
New(k, kwargs) ==
    LET r == impl_init(k, kinds[k], kwargs)
    IN  /\ last = NoCall
        /\ insts' = IF r.status = "ok" THEN Append(insts, r.self) ELSE insts
        /\ last' = Call("new", kwargs, k, NoIface, 0, "", "None", r.status, 0,
                        IF r.status = "ok" THEN Len(insts) + 1 ELSE 0, NoClass)
        /\ UNCHANGED kinds
        /\ UNCHANGED mainVars

\* insts[i].set_<name>(val)
Set(i, name, val) ==
    LET r == CallSetter(insts[i], kinds[insts[i].cls], name, val)
    IN  /\ last = NoCall
        /\ insts' = [insts EXCEPT ![i] = r.self]
        /\ last' = Call("set", <<>>, insts[i].cls, NoIface, i, name, val,
                        r.status, 0, IF r.returns_self THEN i ELSE 0, NoClass)
        /\ UNCHANGED kinds
        /\ UNCHANGED mainVars

(***************************************************************************)
(* The generator alone: every input, no instances.                         *)
(***************************************************************************)
\* The values of **rm_fields are never read: one value stands for all.
RmDicts == DictsOver(FieldNames, {"int"})

\* The members of an Enum have names that can be fields.
EnumDecls == DictsOver(FieldNames \ Range(Reserved), FieldValues)

Ifaces ==
    {Iface("object", "None", <<>>), Iface("class", "None", <<>>)}
    \cup { Iface("Interface", e, <<>>) : e \in FieldsEnums \ {"Enum"} }
    \cup { Iface("Interface", "Enum", m) : m \in EnumDecls }

DoModelWithFields ==
    /\ last = NoCall
    /\ Len(kinds) < MaxKinds
    /\ \E fields \in Dicts : ModelWithFields(fields)

DoAddFields ==
    /\ last = NoCall
    /\ Len(kinds) < MaxKinds
    /\ \E k \in DOMAIN kinds : \E new_fields \in Dicts : AddFields(k, new_fields)

DoOmitFields ==
    /\ last = NoCall
    /\ Len(kinds) < MaxKinds
    /\ \E k \in DOMAIN kinds : \E rm_fields \in RmDicts : OmitFields(k, rm_fields)

DoModelFromProto ==
    /\ last = NoCall
    /\ Len(kinds) < MaxKinds
    /\ \E iface \in Ifaces : ModelFromProto(iface)

Next ==
    DoModelWithFields \/ DoAddFields \/ DoOmitFields \/ DoModelFromProto \/ Continue

Spec == Init /\ [][Next]_vars

(***************************************************************************)
(* Kinds with instances.  No accessor and no constructor reads the type of *)
(* a field, so the schemas here have fields of one type and no reserved    *)
(* name; the constructor is given values for names that can be fields.     *)
(***************************************************************************)
InstDicts == DictsOver(FieldNames \ Range(Reserved), {"int"})

Kwargs == DictsOver(FieldNames \ Range(Reserved), InstValues)

InstModelWithFields ==
    /\ last = NoCall
    /\ Len(kinds) < MaxInstKinds
    /\ \E fields \in InstDicts : ModelWithFields(fields)

InstAddFields ==
    /\ last = NoCall
    /\ Len(kinds) < MaxInstKinds
    /\ \E k \in DOMAIN kinds : \E new_fields \in InstDicts : AddFields(k, new_fields)

InstOmitFields ==
    /\ last = NoCall
    /\ Len(kinds) < MaxInstKinds
    /\ \E k \in DOMAIN kinds : \E rm_fields \in InstDicts : OmitFields(k, rm_fields)

DoNew ==
    /\ last = NoCall
    /\ Len(insts) < MaxInsts
    /\ \E k \in DOMAIN kinds : \E kwargs \in Kwargs : New(k, kwargs)

DoSet ==
    /\ last = NoCall
    /\ \E i \in DOMAIN insts : \E name \in FieldNames : \E val \in InstValues :
            Set(i, name, val)

NextInst ==
    InstModelWithFields \/ InstAddFields \/ InstOmitFields \/ DoNew \/ DoSet \/ Continue

SpecInst == Init /\ [][NextInst]_vars

(***************************************************************************)
(* The client loop: main(entry, request, handler, **kwargs) of             *)
(* chat/common/client/events.py.  `pc` is the call main is about to make   *)
(* (or how main has ended), `frame` holds main's local variables, `calls`  *)
(* is the record of the calls of entry, request and handler main has made, *)
(* each with its keyword arguments and its outcome.                        *)
(***************************************************************************)
\* The members of chat.common.operations.Opcode by value: value 0 is
\* CREATE_ACCOUNT by the comments of main, the values 2 to 5 are the
\* entries of the second menu in their order.
OpcodeNames ==
    <<"CREATE_ACCOUNT", "LOGIN_ACCOUNT", "LIST_ACCOUNTS", "SEND_MESSAGE",
      "DELIVER_UNDELIVERED_MESSAGES", "DELETE_ACCOUNT">>

\* Opcode(value)
Opcode(value) == OpcodeNames[value + 1]

\* int(opcode) for a string of one digit
IntOf(opcode) ==
    CASE opcode = "1" -> 1
      [] opcode = "2" -> 2
      [] opcode = "3" -> 3
      [] opcode = "4" -> 4

\* What the user types at a menu, and at a prompt for a name.
MenuInputs == {"1", "2", "3", "4", "x"}

Usernames == {"alice"}

\* The keyword arguments main is called with and the ones entry returns.
MainKwargs == DictsOver({"conn"}, {"s1", "s2"})

\* An exception: whether `except Exception` catches it (an EOFError at a
\* prompt does, a KeyboardInterrupt does not), and the call that raised it.
Exc(class, by) == [class |-> class, by |-> by]

NoExc == Exc("", "")

Raisable(by) == {Exc("Exception", by), Exc("BaseException", by)}

\* A response: a record instance with an error field and, by the kind of
\* the request, a list of accounts or of messages; a field that was not set
\* reads None.
Response(error, accounts, messages) ==
    [error |-> error, accounts |-> accounts, messages |-> messages]

NoResponse == Response("no response", "no field", "no field")

\* response.get_error(): no error, an error message, or None when the field
\* was not set.
Errors == {"", "boom", "None"}

Responses(opcode) ==
    CASE opcode = "LIST_ACCOUNTS" ->
            { Response(e, a, "no field") : e \in Errors, a \in {"None", "list"} }
      [] opcode = "DELIVER_UNDELIVERED_MESSAGES" ->
            { Response(e, "no field", m) : e \in Errors, m \in {"None", "list"} }
      [] OTHER -> { Response(e, "no field", "no field") : e \in Errors }

\* A call main has made: the callback `fn`, the opcode= and err= keyword
\* arguments, the **kwargs, and the outcome: the value the call returned
\* (the kwargs of entry; <<>> when nothing was returned), the response
\* request returned, or the exception the call raised.
Event(fn, opcode, err, kwargs, returned, response, raised) ==
    [fn |-> fn, opcode |-> opcode, err |-> err, kwargs |-> kwargs,
     returned |-> returned, response |-> response, raised |-> raised]

\* main's local variables when main is entered with **kwargs.
Frame(kwargs) ==
    [kwargs |-> kwargs, has_logged_in |-> "unbound", opcode |-> "unbound",
     username |-> "unbound", recipient |-> "unbound", message |-> "unbound",
     err |-> NoExc]

InitMain ==
    /\ kinds = <<>>
    /\ insts = <<>>
    /\ last = NoCall
    /\ pc = "entry"
    /\ frame \in { Frame(kwargs) : kwargs \in MainKwargs }
    /\ calls = <<>>

\* An exception raised inside the try block with main's locals `f`:
\* `except Exception as err` catches it, anything else leaves main.
Raise(e, f) ==
    IF e.class = "Exception"
    THEN /\ pc' = "except"
         /\ frame' = [f EXCEPT !.err = e]
    ELSE /\ pc' = "raised"
         /\ frame' = f

\* input(prompt) raises at the prompt where main is.
InputRaises ==
    /\ pc \in {"login_menu", "login_username", "menu", "recipient", "message"}
    /\ \E e \in Raisable("input") : Raise(e, frame)
    /\ UNCHANGED <<kinds, insts, last, calls>>

\* main calling entry without taking what it returns: entry(**kwargs)
Entry_keeps_kwargs ==
    /\ pc = "entry"
    /\ \/ \E returned \in MainKwargs :
            /\ calls' = Append(calls, Event("entry", "", NoExc, frame.kwargs,
                                            <<returned>>, NoResponse, NoExc))
            /\ frame' = [frame EXCEPT !.has_logged_in = FALSE]
            /\ pc' = "login_menu"
       \/ \E e \in Raisable("entry") :
            /\ calls' = Append(calls, Event("entry", "", NoExc, frame.kwargs,
                                            <<>>, NoResponse, e))
            /\ Raise(e, frame)
    /\ UNCHANGED <<kinds, insts, last>>

\* kwargs = entry(**kwargs); has_logged_in = False
Entry ==
    /\ pc = "entry"
    /\ \/ \E returned \in MainKwargs :
            /\ calls' = Append(calls, Event("entry", "", NoExc, frame.kwargs,
                                            <<returned>>, NoResponse, NoExc))
            /\ frame' = [frame EXCEPT !.kwargs = returned, !.has_logged_in = FALSE]
            /\ pc' = "login_menu"
       \/ \E e \in Raisable("entry") :
            /\ calls' = Append(calls, Event("entry", "", NoExc, frame.kwargs,
                                            <<>>, NoResponse, e))
            /\ Raise(e, frame)
    /\ UNCHANGED <<kinds, insts, last>>

\* opcode = input('> 1/2: ') and the dispatch on it.
LoginMenu ==
    /\ pc = "login_menu"
    /\ \E opcode \in MenuInputs :
            IF opcode \notin {"1", "2"}
            THEN /\ frame' = [frame EXCEPT !.opcode = opcode]
                 /\ pc' = "login_menu"
            ELSE /\ frame' = [frame EXCEPT !.opcode = Opcode(IntOf(opcode) - 1)]
                 /\ pc' = "login_username"
    /\ UNCHANGED <<kinds, insts, last, calls>>

\* username = input('> Username: ')
LoginUsername ==
    /\ pc = "login_username"
    /\ \E username \in Usernames : frame' = [frame EXCEPT !.username = username]
    /\ pc' = "login_request"
    /\ UNCHANGED <<kinds, insts, last, calls>>

\* What main does with the response to the request of `opcode`: the
\* exception its own statements raise (NoExc when none), whether the user
\* is logged in by it, and whether it leaves the loop.
\*   Every branch tests response.get_error() == '' and otherwise prints
\*   '\n' + response.get_error() + '\n', which raises TypeError for None.
\*   LIST_ACCOUNTS iterates response.get_accounts() before it looks at the
\*   error; DELIVER_UNDELIVERED_MESSAGES iterates response.get_messages()
\*   when the error is empty; iterating None raises TypeError.
\*   DELETE_ACCOUNT breaks when the error is empty.
Process(opcode, response) ==
    LET TypeError == Exc("Exception", "main")
        fails ==
            \/ opcode = "LIST_ACCOUNTS" /\ response.accounts = "None"
            \/ opcode = "DELIVER_UNDELIVERED_MESSAGES"
                  /\ response.error = "" /\ response.messages = "None"
            \/ response.error = "None"
    IN  [raised |-> IF fails THEN TypeError ELSE NoExc,
         login |-> opcode \in {"LOGIN_ACCOUNT", "CREATE_ACCOUNT"}
                     /\ response.error = "",
         break |-> opcode = "DELETE_ACCOUNT" /\ response.error = ""]

\* The login request without the test of response.get_error(): any
\* response logs the user in.
LoginRequest_ignores_error ==
    /\ pc = "login_request"
    /\ Len(calls) + 1 < MaxCalls
    /\ \/ \E response \in Responses(frame.opcode) :
            /\ calls' = Append(calls, Event("request", frame.opcode, NoExc,
                                            frame.kwargs, <<>>, response, NoExc))
            /\ frame' = [frame EXCEPT !.has_logged_in = TRUE]
            /\ pc' = "menu"
       \/ \E e \in Raisable("request") :
            /\ calls' = Append(calls, Event("request", frame.opcode, NoExc,
                                            frame.kwargs, <<>>, NoResponse, e))
            /\ Raise(e, frame)
    /\ UNCHANGED <<kinds, insts, last>>

\* response = request(opcode=..., username=username, **kwargs) for
\* LOGIN_ACCOUNT or CREATE_ACCOUNT, and the test of response.get_error().
LoginRequest ==
    /\ pc = "login_request"
    /\ Len(calls) + 1 < MaxCalls
    /\ \/ \E response \in Responses(frame.opcode) :
            /\ calls' = Append(calls, Event("request", frame.opcode, NoExc,
                                            frame.kwargs, <<>>, response, NoExc))
            /\ LET p == Process(frame.opcode, response)
               IN  IF p.login
                   THEN /\ frame' = [frame EXCEPT !.has_logged_in = TRUE]
                        /\ pc' = "menu"
                   ELSE IF p.raised # NoExc THEN Raise(p.raised, frame)
                   ELSE /\ frame' = frame
                        /\ pc' = "login_menu"
       \/ \E e \in Raisable("request") :
            /\ calls' = Append(calls, Event("request", frame.opcode, NoExc,
                                            frame.kwargs, <<>>, NoResponse, e))
            /\ Raise(e, frame)
    /\ UNCHANGED <<kinds, insts, last>>

\* opcode = input('> 1/2/3/4: ') and the dispatch on it.
Menu ==
    /\ pc = "menu"
    /\ \E opcode \in MenuInputs :
            IF opcode \notin {"1", "2", "3", "4"}
            THEN /\ frame' = [frame EXCEPT !.opcode = opcode]
                 /\ pc' = "menu"
            ELSE /\ frame' = [frame EXCEPT !.opcode = Opcode(IntOf(opcode) + 1)]
                 /\ pc' = IF Opcode(IntOf(opcode) + 1) = "SEND_MESSAGE"
                          THEN "recipient" ELSE "request"
    /\ UNCHANGED <<kinds, insts, last, calls>>

\* recipient = input('> Recipient: ')
Recipient ==
    /\ pc = "recipient"
    /\ frame' = [frame EXCEPT !.recipient = "bob"]
    /\ pc' = "message"
    /\ UNCHANGED <<kinds, insts, last, calls>>

\* message = input('> Message: ')
Message ==
    /\ pc = "message"
    /\ frame' = [frame EXCEPT !.message = "hello"]
    /\ pc' = "request"
    /\ UNCHANGED <<kinds, insts, last, calls>>

\* response = request(opcode=..., **kwargs) for an entry of the second
\* menu, and what main does with the response.
Request ==
    /\ pc = "request"
    /\ Len(calls) + 1 < MaxCalls
    /\ \/ \E response \in Responses(frame.opcode) :
            /\ calls' = Append(calls, Event("request", frame.opcode, NoExc,
                                            frame.kwargs, <<>>, response, NoExc))
            /\ LET p == Process(frame.opcode, response)
               IN  IF p.raised # NoExc THEN Raise(p.raised, frame)
                   ELSE /\ frame' = frame
                        /\ pc' = IF p.break THEN "returned" ELSE "menu"
       \/ \E e \in Raisable("request") :
            /\ calls' = Append(calls, Event("request", frame.opcode, NoExc,
                                            frame.kwargs, <<>>, NoResponse, e))
            /\ Raise(e, frame)
    /\ UNCHANGED <<kinds, insts, last>>

\* except Exception as err: handler(err=err, **kwargs).  main returns when
\* handler returns; what handler raises leaves main.
Handler ==
    /\ pc = "except"
    /\ \/ /\ calls' = Append(calls, Event("handler", "", frame.err, frame.kwargs,
                                          <<>>, NoResponse, NoExc))
          /\ pc' = "returned"
       \/ \E e \in Raisable("handler") :
            /\ calls' = Append(calls, Event("handler", "", frame.err, frame.kwargs,
                                            <<>>, NoResponse, e))
            /\ pc' = "raised"
    /\ UNCHANGED <<kinds, insts, last, frame>>

NextMain ==
    \/ Entry \/ LoginMenu \/ LoginUsername \/ LoginRequest
    \/ Menu \/ Recipient \/ Message \/ Request
    \/ InputRaises \/ Handler

SpecMain == InitMain /\ [][NextMain]_vars

(***************************************************************************)
(* Properties                                                              *)
(***************************************************************************)
NoReservedName(S) == \A i \in DOMAIN S : S[i].name \notin Range(Reserved)

\* The attribute attr_name of cls can be called.
Usable(cls, attr_name) ==
    IF attr_name \in DOMAIN cls.attrs THEN cls.attrs[attr_name].impl # "None"
    ELSE attr_name \in DirModel

\* cls has a getter and a setter for every name of `names`, and no usable
\* get_/set_ attribute for any other name.
ExposesExactly(cls, names) ==
    /\ \A n \in names :
        /\ ("get_" \o n) \in DOMAIN cls.attrs
        /\ cls.attrs["get_" \o n].impl = "__impl_getter__"
        /\ ("set_" \o n) \in DOMAIN cls.attrs
        /\ cls.attrs["set_" \o n].impl = "__impl_setter__"
    /\ \A a \in Dir(cls) :
        (Take4(a) \in {"get_", "set_"} /\ Drop4(a) \notin names) => ~Usable(cls, a)

\* C1, as stated: model_with_fields(**S) with no reserved name and every
\* value a class returns a class with a getter and a setter for exactly the
\* names of S.
C1_EveryClassAccepted ==
    (/\ last.op = "model_with_fields"
     /\ NoReservedName(last.S)
     /\ \A i \in DOMAIN last.S : IsClass(last.S[i].value))
    => /\ last.status = "ok"
       /\ last.kind \in DOMAIN kinds
       /\ ExposesExactly(kinds[last.kind], Keys(last.S))

\* C1, amended: model_with_fields(**S) with no reserved name and every value
\* an object whose type is exactly `type` returns a class with a callable
\* get_<n> and set_<n> for every name n of S and no usable get_/set_
\* attribute for any other name.
C1_AccessorsExact ==
    (/\ last.op = "model_with_fields"
     /\ NoReservedName(last.S)
     /\ \A i \in DOMAIN last.S : TypeOf(last.S[i].value) = "type")
    => /\ last.status = "ok"
       /\ last.kind \in DOMAIN kinds
       /\ ExposesExactly(kinds[last.kind], Keys(last.S))

\* A class compiled from a schema of two fields has been returned.
C1_Witness ==
    /\ last.op = "model_with_fields"
    /\ last.status = "ok"
    /\ Len(last.S) = 2
    /\ ExposesExactly(kinds[last.kind], {"a", "fields"})

\* The value self.get_<n>() returns on the instance at index i.
Get(i, n) == CallGetter(insts[i], kinds[insts[i].cls], n)

Fields(k) == kinds[k]._fields

ExtendedBy(k2, k, A) ==
    /\ A # <<>>
    /\ Keys(A) \cap Keys(Fields(k)) = {}
    /\ add_fields(kinds[k], A).status = "ok"
    /\ add_fields(kinds[k], A).made[1] = kinds[k2]

\* C4: when omit_fields has been called with the names of A on the class
\* that K.add_fields(**A) returned, A disjoint from K, the call has returned
\* a class with the fields and the accessors of K.
C4_ExtendThenRestrict ==
    \A k \in DOMAIN kinds : \A A \in Dicts :
        (/\ last.op = "omit_fields"
         /\ k # last.base
         /\ Keys(A) = Keys(last.S)
         /\ ExtendedBy(last.base, k, A))
        => /\ last.status = "ok"
           /\ last.kind \in DOMAIN kinds
           /\ Fields(last.kind) = Fields(k)
           /\ kinds[last.kind].attrs = kinds[k].attrs

\* C5: when add_fields has been called on K with an otherwise acceptable
\* schema that names a field K already declares, the call has failed with a
\* duplicate-name error and has returned no class.
C5_DuplicateRejected ==
    (/\ last.op = "add_fields"
     /\ NoReservedName(last.S)
     /\ \A i \in DOMAIN last.S : TypeOf(last.S[i].value) = "type"
     /\ Keys(last.S) \cap Keys(Fields(last.base)) # {})
    => /\ last.status = "ValueError: duplicate name"
       /\ last.kind = 0

\* C6: a call of add_fields or omit_fields, whether it succeeds or fails,
\* leaves every existing class (the one it is called on included) with its
\* fields and accessors, and every existing instance with what its getters
\* return; a class it returns is a new object, distinct from every existing
\* class.
C6_DerivationLeavesKinds ==
    [][last'.op \in {"add_fields", "omit_fields"} =>
          /\ \A k \in DOMAIN kinds : k \in DOMAIN kinds' /\ kinds'[k] = kinds[k]
          /\ DOMAIN insts' = DOMAIN insts
          /\ \A i \in DOMAIN insts :
                /\ insts'[i].cls = insts[i].cls
                /\ \A n \in FieldNames :
                      CallGetter(insts'[i], kinds'[insts'[i].cls], n) = Get(i, n)
          /\ last'.status = "ok" =>
                /\ last'.kind \in DOMAIN kinds' \ DOMAIN kinds
                /\ last'.kind # last'.base]_vars

\* add_fields has returned a class with one more field than the class it
\* was called on, of which an instance holding a value exists.
C6_Witness ==
    /\ last.op = "add_fields"
    /\ last.status = "ok"
    /\ Len(Fields(last.kind)) = Len(Fields(last.base)) + 1
    /\ \E i \in DOMAIN insts :
          /\ insts[i].cls = last.base
          /\ \E n \in Keys(Fields(last.base)) : Get(i, n) = "v1"

\* C7: model_with_fields or add_fields called with a schema that holds a
\* reserved name has failed with the reserved-name error without creating a
\* class, whatever else the schema holds.
C7_ReservedRejected ==
    (/\ last.op \in {"model_with_fields", "add_fields"}
     /\ ~NoReservedName(last.S))
    => /\ last.status = "ValueError: reserved name"
       /\ last.kind = 0
       /\ last.orphan = NoClass

\* add_fields has been called with a schema whose first value is no type
\* and whose last name is reserved.
C7_Witness ==
    /\ last.op = "add_fields"
    /\ Len(last.S) >= 2
    /\ last.S[1].value = "five"
    /\ last.S[Len(last.S)].name = "_fields"
    /\ last.status = "ValueError: reserved name"

\* C8: model_from_proto called with an Interface subclass whose
\* _fields_enum is an Enum with string names and type values has returned a
\* class whose fields are the members of the Enum, with a getter and a setter
\* for each.
C8_AdapterCompiles ==
    (/\ last.op = "model_from_proto"
     /\ last.iface.kind = "Interface"
     /\ last.iface.fields_enum = "Enum"
     /\ \A i \in DOMAIN last.iface.members :
            TypeOf(last.iface.members[i].value) = "type")
    => /\ last.status = "ok"
       /\ last.kind \in DOMAIN kinds
       /\ Fields(last.kind) = last.iface.members
       /\ ExposesExactly(kinds[last.kind], Keys(last.iface.members))

\* The names of the fields of cls that have a getter or a setter on cls.
Installed(cls) ==
    { n \in Keys(cls._fields) :
        ("get_" \o n) \in DOMAIN cls.attrs \/ ("set_" \o n) \in DOMAIN cls.attrs }

\* C9: model_with_fields called with a schema in which a value is no class
\* has failed with the not-a-type error, has returned no class and has left
\* no class object with accessors for only some of its fields.
C9_NoPartialKind ==
    (/\ last.op = "model_with_fields"
     /\ NoReservedName(last.S)
     /\ \E i \in DOMAIN last.S : ~IsClass(last.S[i].value))
    => /\ last.status = "ValueError: not a type"
       /\ last.kind = 0
       /\ \A c \in Range(last.orphan) :
            Installed(c) = {} \/ Installed(c) = Keys(c._fields)

\* C10: omit_fields called on K with names K declares has returned a new
\* class whose fields are those of K without the omitted names, with a
\* getter and a setter for exactly these.
C10_RestrictRemoves ==
    (/\ last.op = "omit_fields"
     /\ Keys(last.S) \subseteq Keys(Fields(last.base)))
    => /\ last.status = "ok"
       /\ last.kind \in DOMAIN kinds
       /\ last.kind # last.base
       /\ Fields(last.kind) = DictWithout(Fields(last.base), Keys(last.S))
       /\ ExposesExactly(kinds[last.kind], Keys(Fields(last.base)) \ Keys(last.S))

\* C11: a call of omit_fields on K with a name K does not declare among the
\* names to omit (whatever the other names are) fails with the unknown-field
\* error, returns no class, creates no class object and leaves every class,
\* K included, as it was.
C11_UnknownFieldRejected ==
    [][(/\ last'.op = "omit_fields"
        /\ ~(Keys(last'.S) \subseteq Keys(Fields(last'.base))))
       => /\ last'.status = "ValueError: cannot omit"
          /\ last'.kind = 0
          /\ last'.orphan = NoClass
          /\ kinds' = kinds]_vars

\* omit_fields has been called on a class of two fields with a declared name
\* first and an undeclared name second.
C11_Witness ==
    /\ last.op = "omit_fields"
    /\ Len(Fields(last.base)) = 2
    /\ Len(last.S) = 2
    /\ last.S[1].name \in Keys(Fields(last.base))
    /\ last.S[2].name \notin Keys(Fields(last.base))
    /\ last.status = "ValueError: cannot omit"

\* The input of model_from_proto fails validation: it is no Interface
\* subclass, or its _fields_enum is None (none supplied) or no Enum, or a
\* member of the Enum has a value that is not a type.  (The name of an Enum
\* member is always a string.)
InvalidDeclaration(iface) ==
    \/ iface.kind # "Interface"
    \/ iface.fields_enum # "Enum"
    \/ \E i \in DOMAIN iface.members : TypeOf(iface.members[i].value) # "type"

\* C12: model_from_proto called with an input that fails validation has
\* failed with one of the adapter's validation errors (the ValueErrors of
\* its contract), has returned no class and has left no class object and so
\* no accessor behind.
C12_AdapterValidatesFirst ==
    (last.op = "model_from_proto" /\ InvalidDeclaration(last.iface))
    => /\ last.status \in {"ValueError: not an interface",
                           "ValueError: not an Enum",
                           "ValueError: not a type"}
       /\ last.kind = 0
       /\ last.orphan = NoClass

C15_NoShadowing ==
    \A i \in DOMAIN insts : \A n \in Range(Reserved) :
        GetInstAttr(insts[i], kinds[insts[i].cls], n) = "class attribute"

C14_KwargsFromEntry ==
    /\ pc # "entry" => Len(calls) >= 1
    /\ \A i \in DOMAIN calls :
        /\ calls[i].fn = "entry" <=> i = 1
        /\ i > 1 => calls[1].returned = <<calls[i].kwargs>>

\* C14, amended: entry is the first call main makes and is called once;
\* when entry has returned, every call of request and of handler receives
\* the keyword arguments entry returned; when entry has raised, no request
\* is made and handler receives the keyword arguments main was called with.
C14_EntryOnceFirst ==
    /\ pc # "entry" => Len(calls) >= 1
    /\ \A i \in DOMAIN calls :
        /\ calls[i].fn = "entry" <=> i = 1
        /\ i > 1 =>
            IF calls[1].raised = NoExc
            THEN calls[1].returned = <<calls[i].kwargs>>
            ELSE /\ calls[i].fn = "handler"
                 /\ calls[i].kwargs = calls[1].kwargs

\* entry has returned keyword arguments other than those main was called
\* with, and a request and then handler have been called.
C14_Witness ==
    /\ Len(calls) = 3
    /\ calls[1].raised = NoExc
    /\ calls[1].returned # <<calls[1].kwargs>>
    /\ calls[2].fn = "request"
    /\ calls[3].fn = "handler"

PreLogin == {"LOGIN_ACCOUNT", "CREATE_ACCOUNT"}

PostLogin ==
    {"LIST_ACCOUNTS", "SEND_MESSAGE", "DELIVER_UNDELIVERED_MESSAGES",
     "DELETE_ACCOUNT"}

\* The i-th call is a LOGIN_ACCOUNT or CREATE_ACCOUNT request that was
\* answered by a response with an empty error.
LoginOK(i) ==
    /\ calls[i].fn = "request"
    /\ calls[i].opcode \in PreLogin
    /\ calls[i].response.error = ""

\* The choices a menu offers.
Offered(menu) == IF menu = "login_menu" THEN {"1", "2"} ELSE {"1", "2", "3", "4"}

\* C17: every request with a post-login opcode comes after a LOGIN_ACCOUNT
\* or CREATE_ACCOUNT response with an empty error, and no LOGIN_ACCOUNT or
\* CREATE_ACCOUNT request comes after such a response; and an input at a
\* menu that is none of the menu's choices makes no call and leaves main at
\* the same menu.
C17_LoginGate ==
    /\ [](\A i \in DOMAIN calls :
            calls[i].fn = "request" =>
                /\ calls[i].opcode \in PreLogin \cup PostLogin
                /\ calls[i].opcode \in PostLogin => \E j \in 1..(i - 1) : LoginOK(j)
                /\ calls[i].opcode \in PreLogin => \A j \in 1..(i - 1) : ~LoginOK(j))
    /\ [][(/\ pc \in {"login_menu", "menu"}
            /\ pc' \notin {"except", "raised"}
            /\ frame'.opcode \in MenuInputs \ Offered(pc))
           => (pc' = pc /\ calls' = calls)]_vars

\* After a successful login and a request from the second menu, the user
\* has typed something the menu does not offer.
C17_Witness ==
    /\ Len(calls) = 3
    /\ LoginOK(2)
    /\ calls[3].opcode \in PostLogin
    /\ pc = "menu"
    /\ frame.opcode = "x"

\* main has ended: it has returned, or an exception has left it.
Ended == pc \in {"returned", "raised"}

HandlerCalls == { i \in DOMAIN calls : calls[i].fn = "handler" }

\* The i-th call is a request answered by a response with a non-empty error.
ErrorResponse(i) ==
    /\ calls[i].fn = "request"
    /\ calls[i].response.error = "boom"

\* C18: when main has ended, either its last call is a DELETE_ACCOUNT
\* request answered with an empty error and handler was never called, or an
\* exception was raised by entry, request or input and handler has been
\* called with it; handler is called at most once, with an exception raised
\* by entry, request or input, and it is the last call main makes; and a
\* response with a non-empty error neither ends main nor leads to a call of
\* handler.
C18_EndsTwoWays ==
    /\ Ended =>
        /\ calls # <<>>
        /\ \/ /\ calls[Len(calls)].fn = "request"
              /\ calls[Len(calls)].opcode = "DELETE_ACCOUNT"
              /\ calls[Len(calls)].response.error = ""
              /\ HandlerCalls = {}
           \/ /\ calls[Len(calls)].fn = "handler"
              /\ calls[Len(calls)].err.by \in {"entry", "request", "input"}
    /\ \A i \in HandlerCalls :
        /\ i = Len(calls)
        /\ Ended
        /\ calls[i].err.by \in {"entry", "request", "input"}
        /\ calls[i].err.by \in {"entry", "request"} => calls[i].err = calls[i - 1].raised
    /\ \A i \in DOMAIN calls :
        ErrorResponse(i) =>
            /\ i = Len(calls) => (pc # "returned" /\ ~(pc = "except" /\ frame.err.by = "main"))
            /\ i < Len(calls) => ~(calls[i + 1].fn = "handler" /\ calls[i + 1].err.by = "main")

====
